---- MODULE Spec2Model ----
(***************************************************************************)
(* A model of PyQuante's MolecularGrid (Becke patching of atomic grids),   *)
(* DMP (density matrix purification) and UHFSolver (density and Fock       *)
(* updates of the unrestricted SCF iteration).                             *)
(*                                                                         *)
(* Arithmetic.  The program computes in IEEE doubles.  The model computes  *)
(* in binary fixed point: a real v is the integer v * One, One = 2^FracBits,*)
(* and every product and quotient is rounded to the nearest representable  *)
(* value, ties to even, as the hardware rounds a double.  Sums and         *)
(* differences are exact.  Atom and grid point positions lie on a line, on *)
(* integer coordinates, so that every distance is an integer.              *)
(***************************************************************************)
EXTENDS Integers, Sequences, FiniteSets, TLC

\* ------------------------------------------------------------- bounds
FracBits == 10
MaxAtoms == 3
MaxCoord == 2
MaxRad == 2
MaxNbr == 2
MaxIterBound == 3
MaxScfIter == 3
MaxBudgetIter == 3
MaxBudgetFun == 6
MaxCalls == 24

\* ---------------------------------------------------------- the state
\* MolecularGrid
VARIABLES
    atoms,       \* self.atoms: sequence of [pos, atno, grid]; grid is the id of atom.grid, 0 before it is set
    opts,        \* nrad, do_becke_hetero, do_grad_dens
    heap,        \* the AtomicGrid objects: id -> sequence of points [xyz, w, dens, gamma]
    atomgrids,   \* self.atomgrids: sequence of AtomicGrid ids
    length,      \* self._length: <<>> is None, <<n>> is n
    pc,          \* where the construction is: "__init__", "patch_atoms", "ready", "raised"
    iat, ipt,    \* patch_atoms' loop indices (from 1)
    err,         \* the exception that ended the construction, "" when none
    nwrites,     \* history: id -> how often each point's _w has been assigned
    result       \* the last accessor called and the value it returned

\* the Becke cell function of one grid point
VARIABLES
    bmus,        \* (rip-rjp)/rij of the point against each other atom, in the order of the loop over jat
    bhetero,     \* do_becke_hetero
    bati, batj,  \* the atomic number of the point's atom, and of the other atoms
    bmu,         \* history: the mu last given to sbecke
    bk,          \* the next entry of bmus
    bs,          \* the last sbecke(mu), -1 before the first
    bsprod,      \* sprod
    bw,          \* point._w
    bw0,         \* history: point._w before patching
    bpc          \* "idle", "loop", "stored"

\* patch_atoms with its points shared out among workers
VARIABLES
    workers      \* for each worker the points <<iat, i>> it has still to patch, in its order

\* DMP
VARIABLES
    F, S, Ne, Method, MaxIter, ErrorLimit,   \* the arguments (F is rebound to the orthogonalized F)
    X,           \* SymOrth(S); << >> before it is computed
    D,           \* the density matrix, in the orthogonal basis; << >> before it is initialized
    Dsumold,
    iter,        \* the loop variable of "for iter in range(MaxIter)": passes started
    dpc,         \* "idle", "called", "orthogonal", "loop", "exit", "returned", "raised"
    derr,        \* the exception raised, "" when none
    warned,      \* "DMM: Warning MaxIters reached" was printed
    broke,       \* history: the loop was left by break
    nupd,        \* history: the number of updates of D
    ret          \* the matrix returned; << >> before

\* UHFSolver
VARIABLES
    h, Ints, nalpha, nbeta, etemp, do_averaging, avgfact,   \* set up before the iterations
    self_iter,   \* self.iter
    orbsa, orbsb,
    Da, Db, Dab,
    Da_old, Db_old,    \* << >> while the attribute does not exist, <<d>> when it holds d
    entropy,
    Ja, Jb, Ka, Kb, Fa, Fb,
    Enuke, energy,
    upc,         \* "idle", "update_density", "update_fock", "solve_fock", "calculate_energy", "raised"
    used         \* history: <<Da, Db>> as update_fock last read them, << >> before

\* optimize: the call, and what it returns
VARIABLES
    algo,        \* "fmin", "fminBFGS", "fminNCG"; "" when none is called
    func,        \* the objective
    x0,          \* a sequence of numbers (fmin), a number (fminBFGS, fminNCG)
    maxiter, maxfun,   \* << >> is None, <<n>> is n
    xtol, ftol,  \* fmin's xtol and ftol; avegtol, avextol are xtol
    opc,         \* "idle", "called", "loop", "cg", "search", "found", "exit", "returned", "raised"
    oerr,        \* the exception raised, "" when none
    warnflag, retx, fval   \* the values returned; -1, << >> before

\* fmin
VARIABLES
    sim, fsim, iterations, funcalls,
    nevals,      \* history: the number of times func has been applied
    left         \* history: how the loop was left: "", "break", "guard"

\* fminBFGS and fminNCG, for one variable: vectors and matrices are numbers
VARIABLES
    fprime_given,   \* fminBFGS: fprime is not None
    hess_mode,      \* fminNCG: "fhess_p", "fhess", or "approx" when both are None
    xk, gfk, Hk, k_iter,              \* k_iter is k
    func_calls, grad_calls, hcalls,   \* fminNCG's fcalls, gcalls, hcalls
    pk, update

\* fminNCG: the conjugate gradient loop
VARIABLES ncg_b, ncg_A, termcond, xsupi, ri, psupi, cg_i, dri0

\* line_search_BFGS
VARIABLES
    alpha0, alpha1, phi0, phi_a0, phi_a1, derphi0,
    ls_fc,          \* fc, counted modulo MaxCalls + 1
    alpha_k         \* the alpha returned

gridVars == <<atoms, opts, heap, atomgrids, length, pc, iat, ipt, err, nwrites, result>>
parVars == <<workers>>
beckeVars == <<bmus, bhetero, bati, batj, bmu, bk, bs, bsprod, bw, bw0, bpc>>
dmpVars == <<F, S, Ne, Method, MaxIter, ErrorLimit, X, D, Dsumold, iter, dpc, derr, warned,
             broke, nupd, ret>>
uhfVars == <<h, Ints, nalpha, nbeta, etemp, do_averaging, avgfact, self_iter, orbsa, orbsb,
             Da, Db, Dab, Da_old, Db_old, entropy, Ja, Jb, Ka, Kb, Fa, Fb, Enuke, energy,
             upc, used>>
optVars == <<algo, func, x0, maxiter, maxfun, xtol, ftol, opc, oerr, warnflag, retx, fval>>
fminVars == <<sim, fsim, iterations, funcalls, nevals, left>>
newtonVars == <<fprime_given, hess_mode, xk, gfk, Hk, k_iter, func_calls, grad_calls, hcalls,
                pk, update>>
cgVars == <<ncg_b, ncg_A, termcond, xsupi, ri, psupi, cg_i, dri0>>
lsVars == <<alpha0, alpha1, phi0, phi_a0, phi_a1, derphi0, ls_fc, alpha_k>>
vars == <<gridVars, parVars, beckeVars, dmpVars, uhfVars, optVars, fminVars, newtonVars,
          cgVars, lsVars>>

\* each of the programs runs on its own: the others stay idle
IdleGrid ==
    /\ atoms = << >> /\ opts = [nrad |-> 0, do_becke_hetero |-> FALSE, do_grad_dens |-> FALSE]
    /\ heap = << >> /\ atomgrids = << >> /\ length = << >> /\ pc = "idle"
    /\ iat = 0 /\ ipt = 0 /\ err = "" /\ nwrites = << >>
    /\ result = [op |-> "", val |-> << >>]

IdlePar == workers = << >>

IdleBecke ==
    /\ bmus = << >> /\ bhetero = FALSE /\ bati = 0 /\ batj = 0 /\ bmu = 0
    /\ bk = 0 /\ bs = -1 /\ bsprod = 0 /\ bw = 0 /\ bw0 = 0 /\ bpc = "idle"

IdleDMP ==
    /\ F = << >> /\ S = << >> /\ Ne = 0 /\ Method = 0 /\ MaxIter = 0 /\ ErrorLimit = 0
    /\ X = << >> /\ D = << >> /\ Dsumold = 0 /\ iter = 0 /\ dpc = "idle" /\ derr = ""
    /\ warned = FALSE /\ broke = FALSE /\ nupd = 0 /\ ret = << >>

IdleNewton ==
    /\ fprime_given = FALSE /\ hess_mode = "" /\ xk = 0 /\ gfk = 0 /\ Hk = 0 /\ k_iter = 0
    /\ func_calls = 0 /\ grad_calls = 0 /\ hcalls = 0 /\ pk = 0 /\ update = 0
    /\ ncg_b = 0 /\ ncg_A = 0 /\ termcond = 0 /\ xsupi = 0 /\ ri = 0 /\ psupi = 0
    /\ cg_i = 0 /\ dri0 = 0
    /\ alpha0 = 0 /\ alpha1 = 0 /\ phi0 = 0 /\ phi_a0 = 0 /\ phi_a1 = 0 /\ derphi0 = 0
    /\ ls_fc = 0 /\ alpha_k = 0

IdleOpt ==
    /\ algo = "" /\ func = "" /\ x0 = << >> /\ maxiter = << >> /\ maxfun = << >>
    /\ xtol = 0 /\ ftol = 0 /\ opc = "idle" /\ oerr = "" /\ warnflag = -1
    /\ retx = << >> /\ fval = << >>
    /\ sim = << >> /\ fsim = << >> /\ iterations = 0 /\ funcalls = 0 /\ nevals = 0
    /\ left = ""
    /\ IdleNewton

IdleUHF ==
    /\ h = 0 /\ Ints = [j |-> 0, k |-> 0] /\ nalpha = 0 /\ nbeta = 0 /\ etemp = 0
    /\ do_averaging = FALSE /\ avgfact = 0 /\ self_iter = 0 /\ orbsa = 0 /\ orbsb = 0
    /\ Da = 0 /\ Db = 0 /\ Dab = 0 /\ Da_old = << >> /\ Db_old = << >> /\ entropy = 0
    /\ Ja = 0 /\ Jb = 0 /\ Ka = 0 /\ Kb = 0 /\ Fa = 0 /\ Fb = 0 /\ Enuke = 0 /\ energy = 0 /\ upc = "idle"
    /\ used = << >>

\* ------------------------------------------------- fixed point numbers
One == 2 ^ FracBits
Half == One \div 2

Abs(a) == IF a < 0 THEN -a ELSE a
Min(a, b) == IF a < b THEN a ELSE b
Max(a, b) == IF a > b THEN a ELSE b

\* n / d for d > 0, rounded to the nearest integer, ties to even
RoundPos(n, d) ==
    LET q == n \div d
        r == n % d
    IN  IF 2 * r < d THEN q
        ELSE IF 2 * r > d THEN q + 1
        ELSE IF q % 2 = 0 THEN q ELSE q + 1

RoundDiv(n, d) == IF d > 0 THEN RoundPos(n, d) ELSE RoundPos(-n, -d)

\* a * b and a / b (b # 0) of two fixed point numbers
Mul(a, b) == RoundDiv(a * b, One)
Div(a, b) == RoundDiv(a * One, b)

\* ------------------------------------------ the Becke projection operator
\* pbecke(x) = 1.5*x - 0.5*pow(x,3)
pbecke_square(x) == Mul(3 * Half, x) - Mul(Half, Mul(x, x))
pbecke(x) == Mul(3 * Half, x) - Mul(Half, Mul(Mul(x, x), x))

RECURSIVE fbecke(_, _)
fbecke(x, n) == IF n = 0 THEN x ELSE fbecke(pbecke(x), n - 1)

BeckeIterations == 3
sbecke(x) == Mul(Half, One - fbecke(x, BeckeIterations))

\* ======================================================= MolecularGrid
AtNos == {1, 8}

\* Bragg-Slater radii of H, O and Na
Bragg(atno) ==
    IF atno = 1 THEN RoundDiv(35 * One, 100)
    ELSE IF atno = 8 THEN RoundDiv(60 * One, 100)
    ELSE RoundDiv(180 * One, 100)

\* cints.dist2 and math.sqrt on the line of the atoms
dist2(p, q) == (p - q) * (p - q)
sqrt(d2) == One * (CHOOSE r \in 0..d2 : r * r = d2)

\* AtomicGrid(atom, nrad): the points of one atom, shell by shell, with their
\* quadrature weights before patching
RadialWeight(r) == r * One
ShellPoints(pos, r) ==
    << [xyz |-> pos - r, w |-> RadialWeight(r), dens |-> 0, gamma |-> 0],
       [xyz |-> pos + r, w |-> RadialWeight(r), dens |-> 0, gamma |-> 0] >>

RECURSIVE AtomicGrid(_, _)
AtomicGrid(pos, nrad) ==
    IF nrad = 0 THEN << >> ELSE AtomicGrid(pos, nrad - 1) \o ShellPoints(pos, nrad)

nat == Len(atoms)

\* make_atom_grids: one AtomicGrid per atom, stored in atom.grid and appended
make_atom_grids(ats) == [i \in 1..Len(ats) |-> i]

\* mu of the point at xp, of atom i, against atom j (rij # 0)
mu_plain(i, j, xp) ==
    LET rip == sqrt(dist2(atoms[i].pos, xp))
        rjp == sqrt(dist2(atoms[j].pos, xp))
        rij == sqrt(dist2(atoms[i].pos, atoms[j].pos))
    IN  Div(rip - rjp, rij)

\* the Becke hetero formulas (App A)
hetero_a_unclamped(atnoi, atnoj) ==
    LET chi == Div(Bragg(atnoi), Bragg(atnoj))
        u == Div(chi - One, chi + One)
    IN  Div(u, Mul(u, u) - One)

hetero_a(atnoi, atnoj) ==
    LET chi == Div(Bragg(atnoi), Bragg(atnoj))
        u == Div(chi - One, chi + One)
        a0 == Div(u, Mul(u, u) - One)
    IN  Max(Min(a0, Half), -Half)

hetero_mu(a, mu) == mu + Mul(a, One - Mul(mu, mu))

hetero(i, j, mu) == hetero_mu(hetero_a(atoms[i].atno, atoms[j].atno), mu)

mu_ij(i, j, xp) ==
    IF opts.do_becke_hetero /\ atoms[i].atno # atoms[j].atno
    THEN hetero(i, j, mu_plain(i, j, xp))
    ELSE mu_plain(i, j, xp)

\* the loop over jat, from jat = j with the product so far
RECURSIVE sprod_from(_, _, _, _)
sprod_from(i, xp, j, sprod) ==
    IF j > nat THEN sprod
    ELSE IF j = i THEN sprod_from(i, xp, j + 1, sprod)
    ELSE sprod_from(i, xp, j + 1, Mul(sprod, sbecke(mu_ij(i, j, xp))))

sprod_init_half == Half
sprod_init == One
BeckeProduct(i, xp) == sprod_from(i, xp, 1, sprod_init)

\* mu = (rip-rjp)/rij divides by zero for some jat
ZeroDivision(i) == \E j \in 1..nat : j # i /\ atoms[j].pos = atoms[i].pos

notGrid == <<parVars, beckeVars, dmpVars, uhfVars, optVars, fminVars, newtonVars,
    cgVars, lsVars>>

InitGrid ==
    /\ \E n \in 1..MaxAtoms :
          atoms \in [1..n -> [pos : 0..MaxCoord, atno : AtNos, grid : {0}]]
    /\ opts \in [nrad : 1..MaxRad, do_becke_hetero : BOOLEAN, do_grad_dens : BOOLEAN]
    /\ heap = << >>
    /\ atomgrids = << >>
    /\ length = << >>
    /\ pc = "__init__"
    /\ iat = 0 /\ ipt = 0
    /\ err = ""
    /\ nwrites = << >>
    /\ result = [op |-> "", val |-> << >>]
    /\ IdlePar /\ IdleBecke /\ IdleDMP /\ IdleUHF /\ IdleOpt

\* __init__ up to the call of patch_atoms
MakeAtomGrids ==
    /\ pc = "__init__"
    /\ atomgrids' = make_atom_grids(atoms)
    /\ heap' = [g \in 1..nat |-> AtomicGrid(atoms[g].pos, opts.nrad)]
    /\ atoms' = [i \in 1..nat |-> [atoms[i] EXCEPT !.grid = i]]
    /\ nwrites' = [g \in 1..nat |-> [k \in 1..(2 * opts.nrad) |-> 0]]
    /\ pc' = "patch_atoms"
    /\ iat' = 1 /\ ipt' = 1
    /\ UNCHANGED <<opts, length, err, result>>
    /\ UNCHANGED notGrid

InPatchLoop == pc = "patch_atoms" /\ iat <= nat

\* one pass of the loop over i: point._w *= sprod
PatchPointPerNeighbour ==
    /\ InPatchLoop /\ ipt <= Len(heap[atomgrids[iat]])
    /\ ~ZeroDivision(iat)
    /\ LET g == atomgrids[iat]
           point == heap[g][ipt]
       IN  /\ heap' = [heap EXCEPT ![g][ipt].w = Mul(@, BeckeProduct(iat, point.xyz))]
           /\ nwrites' = [nwrites EXCEPT ![g][ipt] = @ + (nat - 1)]
    /\ ipt' = ipt + 1
    /\ UNCHANGED <<atoms, opts, atomgrids, length, pc, iat, err, result>>
    /\ UNCHANGED notGrid

PatchPoint ==
    /\ InPatchLoop /\ ipt <= Len(heap[atomgrids[iat]])
    /\ ~ZeroDivision(iat)
    /\ LET g == atomgrids[iat]
           point == heap[g][ipt]
       IN  /\ heap' = [heap EXCEPT ![g][ipt].w = Mul(@, BeckeProduct(iat, point.xyz))]
           /\ nwrites' = [nwrites EXCEPT ![g][ipt] = @ + 1]
    /\ ipt' = ipt + 1
    /\ UNCHANGED <<atoms, opts, atomgrids, length, pc, iat, err, result>>
    /\ UNCHANGED notGrid

\* the division by rij = 0 raises, and the exception leaves __init__
PatchRaise ==
    /\ InPatchLoop /\ ipt <= Len(heap[atomgrids[iat]])
    /\ ZeroDivision(iat)
    /\ pc' = "raised"
    /\ err' = "ZeroDivisionError"
    /\ UNCHANGED <<atoms, opts, heap, atomgrids, length, iat, ipt, nwrites, result>>
    /\ UNCHANGED notGrid

\* the points of atom iat are done
PatchNextAtom ==
    /\ InPatchLoop /\ ipt > Len(heap[atomgrids[iat]])
    /\ iat' = iat + 1 /\ ipt' = 1
    /\ UNCHANGED <<atoms, opts, heap, atomgrids, length, pc, err, nwrites, result>>
    /\ UNCHANGED notGrid

\* patch_atoms returns; self._length = None; __init__ returns
PatchReturn ==
    /\ pc = "patch_atoms" /\ iat > nat
    /\ length' = << >>
    /\ pc' = "ready"
    /\ UNCHANGED <<atoms, opts, heap, atomgrids, iat, ipt, err, nwrites, result>>
    /\ UNCHANGED notGrid

\* AtomicGrid's own accessors: len(agr), agr.npts(), agr.weights(), agr.dens(), agr.gamma()
agr_len(g) == Len(heap[g])
agr_npts(g) == Len(heap[g])
agr_weights(g) == [k \in 1..Len(heap[g]) |-> heap[g][k].w]
agr_dens(g) == [k \in 1..Len(heap[g]) |-> heap[g][k].dens]
agr_gamma(g) == [k \in 1..Len(heap[g]) |-> heap[g][k].gamma]

\* the loops "for agr in self.atomgrids" of the accessors, from the k-th grid
RECURSIVE len_from(_)
len_from(k) == IF k > Len(atomgrids) THEN 0 ELSE agr_len(atomgrids[k]) + len_from(k + 1)

RECURSIVE npts_from(_)
npts_from(k) == IF k > Len(atomgrids) THEN 0 ELSE agr_npts(atomgrids[k]) + npts_from(k + 1)

RECURSIVE weights_from(_)
weights_from(k) ==
    IF k > Len(atomgrids) THEN << >> ELSE agr_weights(atomgrids[k]) \o weights_from(k + 1)

RECURSIVE points_from(_)
points_from(k) ==
    IF k > Len(atomgrids) THEN << >> ELSE heap[atomgrids[k]] \o points_from(k + 1)

RECURSIVE dens_from(_)
dens_from(k) ==
    IF k > Len(atomgrids) THEN << >> ELSE agr_dens(atomgrids[k]) \o dens_from(k + 1)

RECURSIVE gamma_from(_)
gamma_from(k) ==
    IF k > Len(atomgrids) THEN << >> ELSE agr_gamma(atomgrids[k]) \o gamma_from(k + 1)

weights_last_only ==
    IF Len(atomgrids) = 0 THEN << >> ELSE agr_weights(atomgrids[Len(atomgrids)])
weights == weights_from(1)

Returns(op, val) ==
    /\ pc = "ready"
    /\ result' = [op |-> op, val |-> val]
    /\ UNCHANGED <<atoms, opts, heap, atomgrids, pc, iat, ipt, err, nwrites>>
    /\ UNCHANGED notGrid

\* len(grid)
CallLen == Returns("__len__", len_from(1)) /\ length' = <<len_from(1)>>

CallNpts == Returns("npts", npts_from(1)) /\ UNCHANGED length

CallWeights == Returns("weights", weights) /\ UNCHANGED length

CallPoints == Returns("points", points_from(1)) /\ UNCHANGED length

CallDens == Returns("dens", dens_from(1)) /\ UNCHANGED length

\* gamma() is None without do_grad_dens
CallGamma ==
    /\ Returns("gamma", IF opts.do_grad_dens THEN gamma_from(1) ELSE << >>)
    /\ UNCHANGED length

NextGrid ==
    \/ MakeAtomGrids
    \/ PatchPoint
    \/ PatchRaise
    \/ PatchNextAtom
    \/ PatchReturn
    \/ CallLen
    \/ CallNpts
    \/ CallWeights
    \/ CallPoints
    \/ CallDens
    \/ CallGamma

Spec == InitGrid /\ [][NextGrid]_vars

\* ------------------------------------------- MolecularGrid: the claims
\* the grid of atom i as AtomicGrid made it, before patching
Unpatched(i) == AtomicGrid(atoms[i].pos, opts.nrad)

Coincident == \E i, j \in 1..nat : i # j /\ atoms[i].pos = atoms[j].pos

GridsMade == pc \in {"patch_atoms", "ready", "raised"}

\* C1: a molecule with two atoms at the same position is rejected by the
\* construction with a geometry error, raised before any weight is modified:
\* the construction never completes, the only error is the geometry error (no
\* division by the zero distance is attempted) and no point's weight is written.
C1_CoincidentAtomsRejected ==
    Coincident =>
        /\ pc # "ready"
        /\ err \in {"", "GeometryError"}
        /\ GridsMade =>
              \A g \in 1..Len(heap) : \A k \in 1..Len(heap[g]) :
                  nwrites[g][k] = 0 /\ heap[g][k].w = Unpatched(g)[k].w

\* C4: in a construction every point's weight is written at most once, by one
\* multiplication of its AtomicGrid weight with the Becke product over all the
\* other atoms, and exactly once when the construction returns; no point's
\* position ever differs from the one AtomicGrid gave it, whatever accessor
\* has been called.
C4_WeightWrittenOncePositionFixed ==
    GridsMade =>
        \A i \in 1..nat : \A k \in 1..Len(heap[atomgrids[i]]) :
            LET point == heap[atomgrids[i]][k]
                orig == Unpatched(i)[k]
            IN  /\ point.xyz = orig.xyz
                /\ nwrites[atomgrids[i]][k] \in {0, 1}
                /\ nwrites[atomgrids[i]][k] = 0 => point.w = orig.w
                /\ nwrites[atomgrids[i]][k] = 1 =>
                      point.w = Mul(orig.w, BeckeProduct(i, orig.xyz))
                /\ pc = "ready" => nwrites[atomgrids[i]][k] = 1

C4_Witness ==
    /\ pc = "ready" /\ nat >= 2 /\ result.op = "weights"
    /\ \E k \in 1..Len(heap[1]) : heap[1][k].w # Unpatched(1)[k].w

\* C5: for a molecule of one atom the constructed grid has the weights
\* AtomicGrid produced, and weights() returns that vector.
C5_SingleAtomUnchanged ==
    (pc = "ready" /\ nat = 1) =>
        /\ \A k \in 1..Len(heap[atomgrids[1]]) :
              heap[atomgrids[1]][k].w = Unpatched(1)[k].w
        /\ result.op = "weights" =>
              result.val = [k \in 1..Len(Unpatched(1)) |-> Unpatched(1)[k].w]

C5_Witness == pc = "ready" /\ nat = 1 /\ result.op = "weights" /\ Len(result.val) > 0

\* the number of points of the atoms before atom i
RECURSIVE PointsBefore(_)
PointsBefore(i) == IF i <= 1 THEN 0 ELSE PointsBefore(i - 1) + Len(heap[atoms[i - 1].grid])

\* C6: once constructed, the grid holds one AtomicGrid per atom, in atom
\* order, each the atom's own; len(grid) and npts() return the sum of the
\* atoms' point counts, and weights() has that many entries, the weights of
\* atom 1's points first, then atom 2's, and so on.
C6_OneGridPerAtom ==
    pc = "ready" =>
        /\ Len(atomgrids) = nat
        /\ \A i \in 1..nat : atomgrids[i] = atoms[i].grid
        /\ \A i, j \in 1..nat : atomgrids[i] = atomgrids[j] => i = j
        /\ result.op \in {"__len__", "npts"} => result.val = PointsBefore(nat + 1)
        /\ result.op = "__len__" => length = <<PointsBefore(nat + 1)>>
        /\ result.op = "weights" =>
              /\ Len(result.val) = PointsBefore(nat + 1)
              /\ \A i \in 1..nat : \A k \in 1..Len(heap[atoms[i].grid]) :
                    result.val[PointsBefore(i) + k] = heap[atoms[i].grid][k].w

C6_Witness ==
    /\ pc = "ready" /\ nat >= 2 /\ result.op = "weights" /\ length # << >>
    /\ Len(result.val) = 2 * opts.nrad * nat

\* ============================ patch_atoms, its points in any order
\* The body of the loop over the points, run by two workers: the first takes
\* the points of the first atoms in the order of the loops, the second those
\* of the other atoms in the reverse order; the steps of the two interleave.

\* the weight the body of the loop stores in point i of atom iat's grid
PatchedWeightAfterPrevious(hp, i, k) ==
    LET g == atomgrids[i]
    IN  Mul(hp[g][IF k > 1 THEN k - 1 ELSE k].w, BeckeProduct(i, hp[g][k].xyz))
PatchedWeight(hp, i, k) ==
    LET point == hp[atomgrids[i]][k]
    IN  Mul(point.w, BeckeProduct(i, point.xyz))

\* patch_atoms: the loops over iat and i, from point k of atom i on
RECURSIVE patch_atoms_from(_, _, _)
patch_atoms_from(hp, i, k) ==
    IF i > nat THEN hp
    ELSE IF k > Len(hp[atomgrids[i]]) THEN patch_atoms_from(hp, i + 1, 1)
    ELSE patch_atoms_from([hp EXCEPT ![atomgrids[i]][k].w = PatchedWeight(hp, i, k)], i, k + 1)

\* the points <<iat, i>> in the order of the loops
PointList ==
    LET P == 2 * opts.nrad
    IN  [n \in 1..(nat * P) |-> <<((n - 1) \div P) + 1, ((n - 1) % P) + 1>>]

Reverse(xs) == [n \in 1..Len(xs) |-> xs[Len(xs) + 1 - n]]

notPar == <<beckeVars, dmpVars, uhfVars, optVars, fminVars, newtonVars,
    cgVars, lsVars>>

\* after make_atom_grids, for atoms at different positions
InitAnyOrder ==
    /\ \E n \in 1..MaxAtoms :
          atoms \in [1..n -> [pos : 0..MaxCoord, atno : AtNos, grid : {0}]]
    /\ \A i, j \in 1..nat : i # j => atoms[i].pos # atoms[j].pos
    /\ \A i \in 1..nat : atoms[i].grid = 0
    /\ opts \in [nrad : {1}, do_becke_hetero : BOOLEAN, do_grad_dens : {FALSE}]
    /\ atomgrids = make_atom_grids(atoms)
    /\ heap = [g \in 1..nat |-> AtomicGrid(atoms[g].pos, opts.nrad)]
    /\ nwrites = [g \in 1..nat |-> [k \in 1..(2 * opts.nrad) |-> 0]]
    /\ length = << >>
    /\ pc = "patch_atoms"
    /\ iat = 0 /\ ipt = 0
    /\ err = ""
    /\ result = [op |-> "", val |-> << >>]
    /\ \E c \in 0..nat :
          workers = << SubSeq(PointList, 1, c * 2 * opts.nrad),
                       Reverse(SubSeq(PointList, c * 2 * opts.nrad + 1, Len(PointList))) >>
    /\ IdleBecke /\ IdleDMP /\ IdleUHF /\ IdleOpt

\* a worker runs the body of the loop for its next point
WorkerPatch(w) ==
    /\ pc = "patch_atoms" /\ workers[w] # << >>
    /\ LET i == Head(workers[w])[1]
           k == Head(workers[w])[2]
       IN  /\ heap' = [heap EXCEPT ![atomgrids[i]][k].w = PatchedWeight(heap, i, k)]
           /\ nwrites' = [nwrites EXCEPT ![atomgrids[i]][k] = @ + 1]
    /\ workers' = [workers EXCEPT ![w] = Tail(@)]
    /\ UNCHANGED <<atoms, opts, atomgrids, length, pc, iat, ipt, err, result>>
    /\ UNCHANGED notPar

\* every worker is done: patch_atoms returns
WorkersDone ==
    /\ pc = "patch_atoms" /\ \A w \in 1..Len(workers) : workers[w] = << >>
    /\ pc' = "ready"
    /\ UNCHANGED <<atoms, opts, heap, atomgrids, length, iat, ipt, err, nwrites, result, workers>>
    /\ UNCHANGED notPar

NextAnyOrder ==
    \/ \E w \in 1..2 : WorkerPatch(w)
    \/ WorkersDone

SpecAnyOrder == InitAnyOrder /\ [][NextAnyOrder]_vars

CoarseMu == {-Half, One}

\* the elements of the point's atom and of the other atoms, and the option
HeteroCases ==
    {<<FALSE, 1, 8>>, <<TRUE, 1, 1>>, <<TRUE, 1, 8>>, <<TRUE, 1, 11>>, <<TRUE, 11, 1>>}

MuLists ==
    UNION { { <<m>> \o rest : m \in -One..One, rest \in [1..n -> CoarseMu] } : n \in 0..(MaxNbr - 1) }

notBecke == <<gridVars, parVars, dmpVars, uhfVars, optVars, fminVars, newtonVars,
    cgVars, lsVars>>

InitBecke ==
    /\ bmus \in MuLists
    /\ \E c \in HeteroCases : bhetero = c[1] /\ bati = c[2] /\ batj = c[3]
    /\ bmu = 0
    /\ bw0 = RadialWeight(1)
    /\ bw = bw0
    /\ bk = 1
    /\ bs = -1
    /\ bsprod = sprod_init
    /\ bpc = "loop"
    /\ IdleGrid /\ IdlePar /\ IdleDMP /\ IdleUHF /\ IdleOpt

\* sprod *= sbecke(mu)
BeckeNeighbour ==
    /\ bpc = "loop" /\ bk <= Len(bmus)
    /\ bmu' = IF bhetero /\ bati # batj
              THEN hetero_mu(hetero_a(bati, batj), bmus[bk])
              ELSE bmus[bk]
    /\ bs' = sbecke(bmu')
    /\ bsprod' = Mul(bsprod, bs')
    /\ bk' = bk + 1
    /\ UNCHANGED <<bmus, bhetero, bati, batj, bw, bw0, bpc>>
    /\ UNCHANGED notBecke

\* point._w *= sprod
BeckeStore ==
    /\ bpc = "loop" /\ bk > Len(bmus)
    /\ bw' = Mul(bw, bsprod)
    /\ bpc' = "stored"
    /\ UNCHANGED <<bmus, bhetero, bati, batj, bmu, bk, bs, bsprod, bw0>>
    /\ UNCHANGED notBecke

NextBecke == BeckeNeighbour \/ BeckeStore

SpecBecke == InitBecke /\ [][NextBecke]_vars

\* C7: for every mu in [-1, 1], sbecke(mu) lies in [0, 1], sbecke(-1) = 1,
\* sbecke(1) = 0 and sbecke(0) = 0.5; the product of the s values applied to a
\* point lies in [0, 1]; and a point with one other atom at mu = 0 (two atoms
\* of one element, the point equidistant from both) ends with exactly half
\* the weight it had.
C7_BeckeStepInUnitInterval ==
    /\ bs # -1 =>
          LET mu == bmu
          IN  /\ 0 <= bs /\ bs <= One
              /\ mu = -One => bs = One
              /\ mu = One => bs = 0
              /\ mu = 0 => bs = Half
    /\ bpc \in {"loop", "stored"} => (0 <= bsprod /\ bsprod <= One)
    /\ (bpc = "stored" /\ bmus = <<0>> /\ bati = batj) => 2 * bw = bw0

C7_Witness ==
    /\ bpc = "stored" /\ bmus = <<0>> /\ bati = batj /\ bs = Half /\ bw0 = One /\ bw = Half

\* C15: mu is adjusted to mu + a * (1 - mu^2) only when do_becke_hetero is
\* set and the two atomic numbers differ, with a = u / (u^2 - 1) brought into
\* [-0.5, 0.5]; otherwise mu is used as it is; and for mu in [-1, 1] the mu
\* given to sbecke is in [-1, 1].
C15_HeteroAdjustedMuInRange ==
    bs # -1 =>
        LET mu == bmus[bk - 1]
            chi == Div(Bragg(bati), Bragg(batj))
            u == Div(chi - One, chi + One)
            a0 == Div(u, Mul(u, u) - One)
            a == IF a0 > Half THEN Half ELSE IF a0 < -Half THEN -Half ELSE a0
        IN  /\ (bhetero /\ bati # batj) => bmu = mu + Mul(a, One - Mul(mu, mu))
            /\ ~(bhetero /\ bati # batj) => bmu = mu
            /\ -One <= bmu /\ bmu <= One

C15_Witness ==
    /\ bpc = "stored" /\ bhetero /\ bati = 1 /\ batj = 11
    /\ bmus = <<Half>> /\ bmu = Half + Mul(Half, One - Mul(Half, Half))

\* ================================================================= DMP
\* A matrix is the sequence of its rows.
Dim(A) == Len(A)

RECURSIVE SumSeq(_)
SumSeq(xs) == IF Len(xs) = 0 THEN 0 ELSE xs[1] + SumSeq(Tail(xs))

identity(n) == [i \in 1..n |-> [j \in 1..n |-> IF i = j THEN One ELSE 0]]
transpose(A) == [i \in 1..Dim(A) |-> [j \in 1..Dim(A) |-> A[j][i]]]
matrixmultiply(A, B) ==
    [i \in 1..Dim(A) |-> [j \in 1..Dim(A) |->
        SumSeq([k \in 1..Dim(A) |-> Mul(A[i][k], B[k][j])])]]
MatAdd(A, B) == [i \in 1..Dim(A) |-> [j \in 1..Dim(A) |-> A[i][j] + B[i][j]]]
MatSub(A, B) == [i \in 1..Dim(A) |-> [j \in 1..Dim(A) |-> A[i][j] - B[i][j]]]
\* c*A and A/c for a scalar c
Scaled(c, A) == [i \in 1..Dim(A) |-> [j \in 1..Dim(A) |-> Mul(c, A[i][j])]]
Over(A, c) == [i \in 1..Dim(A) |-> [j \in 1..Dim(A) |-> Div(A[i][j], c)]]

trace(A) == SumSeq([i \in 1..Dim(A) |-> A[i][i]])
\* sum(sum(D))
sumsum(A) == SumSeq([i \in 1..Dim(A) |-> SumSeq(A[i])])

\* gershgorin_minmax
offsum(A, i) == SumSeq([j \in 1..Dim(A) |-> Abs(A[i][j])]) - Abs(A[i][i])
gershgorin_min(A) ==
    LET mins == {A[i][i] - offsum(A, i) : i \in 1..Dim(A)}
    IN  CHOOSE m \in mins : \A v \in mins : m <= v
gershgorin_max(A) ==
    LET maxs == {A[i][i] + offsum(A, i) : i \in 1..Dim(A)}
    IN  CHOOSE m \in maxs : \A v \in maxs : m >= v

\* LA2.SymOrth, S^(-1/2), for an overlap matrix s*I with s a square
SymOrth(Sm) ==
    LET r == CHOOSE r \in 1..4 : r * r * One = Sm[1][1]
    IN  [i \in 1..Dim(Sm) |-> [j \in 1..Dim(Sm) |-> IF i = j THEN Div(One, r * One) ELSE 0]]

\* LA2.simx: B^T A B, and B A B^T with trans = 'T'
simx(A, B, trans) ==
    IF trans = "T" THEN matrixmultiply(B, matrixmultiply(A, transpose(B)))
    ELSE matrixmultiply(transpose(B), matrixmultiply(A, B))

\* ---- Dinit_mcw
\* tol = 1e-7 lies below the resolution of the fixed point numbers: a
\* difference is smaller than it exactly when it is smaller than one unit
McwTol == 1
McwMaxIt == 100

mcw_ne(A, alpha, beta, efermi) ==
    trace(MatAdd(Scaled(alpha, MatSub(Scaled(efermi, identity(Dim(A))), A)),
                 Scaled(beta, identity(Dim(A)))))

\* the bisection from pass i on; the value is the last efermi
RECURSIVE mcw_bisect(_, _, _, _, _, _, _)
mcw_bisect(A, ne, alpha, beta, elow, ehigh, i) ==
    LET efermi == Mul(Half, elow + ehigh)
        nefermi == mcw_ne(A, alpha, beta, efermi)
    IN  IF Abs(ne - nefermi) < McwTol \/ i = McwMaxIt - 1 THEN efermi
        ELSE IF nefermi < ne THEN mcw_bisect(A, ne, alpha, beta, efermi, ehigh, i + 1)
        ELSE IF nefermi > ne THEN mcw_bisect(A, ne, alpha, beta, elow, efermi, i + 1)
        ELSE mcw_bisect(A, ne, alpha, beta, elow, ehigh, i + 1)

mcw_efermi(A, ne) ==
    LET emin == gershgorin_min(A)
        emax == gershgorin_max(A)
    IN  mcw_bisect(A, ne, Div(Half, emax - emin), Half, emin, emax + 20 * One, 0)

Dinit_mcw(A, ne) ==
    LET emin == gershgorin_min(A)
        emax == gershgorin_max(A)
        efermi == mcw_efermi(A, ne)
        alpha == Min(Div(Half, emax - efermi), Div(One - Half, efermi - emin))
    IN  MatAdd(Scaled(alpha, MatSub(Scaled(efermi, identity(Dim(A))), A)),
               Scaled(Half, identity(Dim(A))))

\* ---- Step 2: the initial density matrix
KnownMethod(meth) == meth = 0 \/ meth = 1 \/ meth = 2 \/ meth = 3

\* a scalar division of the initialization has a zero divisor
InitZeroDivision(A, ne, meth) ==
    LET emin == gershgorin_min(A)
        emax == gershgorin_max(A)
    IN  IF meth = 2
        THEN emax - emin = 0
             \/ emax - mcw_efermi(A, ne) = 0 \/ mcw_efermi(A, ne) - emin = 0
        ELSE IF meth = 3
        THEN LET efermi == Div(trace(A), Dim(A) * One)
             IN  emax - efermi = 0 \/ efermi - emin = 0
        ELSE FALSE

Dinit(A, ne, meth) ==
    LET emin == gershgorin_min(A)
        emax == gershgorin_max(A)
        n == Dim(A)
        I == identity(n)
    IN  IF meth = 0 \/ meth = 1
        THEN Over(MatSub(Scaled(emax, I), A), emax - emin)
        ELSE IF meth = 2
        THEN Dinit_mcw(A, ne)
        ELSE LET efermi == Div(trace(A), n * One)
                 beta == Div(ne, n * One)
                 alpha == Div(Min(Div(ne, emax - efermi), Div(n * One - ne, efermi - emin)),
                              n * One)
             IN  MatAdd(Scaled(alpha, MatSub(Scaled(efermi, I), A)), Scaled(beta, I))

\* ---- Step 3: one pass of the loop
\* the scalar division of the pass has a zero divisor
\* (Method 1: gamma = (Ne-trf)/trg; Method 3: cn = trace(D2-D3)/trace(D-D2))
PassZeroDivision(Dm, meth) ==
    LET D2 == matrixmultiply(Dm, Dm)
    IN  IF meth = 1
        THEN LET Dp == MatSub(identity(Dim(Dm)), Dm)
                 Dg == matrixmultiply(D2, matrixmultiply(Dp, Dp))
             IN  trace(Dg) = 0
        ELSE IF meth = 3
        THEN trace(MatSub(Dm, D2)) = 0
        ELSE FALSE

\* D after the pass
Update(Dm, ne, meth) ==
    LET Ne_curr == trace(Dm)
        n == Dim(Dm)
        I == identity(n)
        D2 == matrixmultiply(Dm, Dm)
    IN  IF meth = 0
        THEN IF Ne_curr < ne THEN MatSub(Scaled(2 * One, Dm), D2) ELSE D2
        ELSE IF meth = 1
        THEN LET Df == matrixmultiply(D2, MatSub(Scaled(4 * One, Dm), Scaled(3 * One, D2)))
                 trf == trace(Df)
                 Dp == MatSub(I, Dm)
                 Dp2 == matrixmultiply(Dp, Dp)
                 Dg == matrixmultiply(D2, Dp2)
                 trg == trace(Dg)
                 gamma == Div(ne - trf, trg)
             IN  IF gamma > 2 * One THEN MatSub(Scaled(2 * One, Dm), D2)
                 ELSE IF gamma < 0 THEN D2
                 ELSE MatSub(Df, Scaled(gamma, Dg))
        ELSE IF meth = 2
        THEN MatSub(Scaled(3 * One, D2), Scaled(2 * One, matrixmultiply(Dm, D2)))
        ELSE LET D3 == matrixmultiply(Dm, D2)
                 cn == Div(trace(MatSub(D2, D3)), trace(MatSub(Dm, D2)))
             IN  IF cn < Half
                 THEN Over(MatSub(MatAdd(Scaled(One - 2 * cn, Dm), Scaled(One + cn, D2)), D3),
                           One - cn)
                 ELSE Over(MatSub(Scaled(One + cn, D2), D3), cn)

\* the test before "break", with D already updated to Dnew
ConvergedOnUpdated(Dm, Dnew, ne, meth, dsumold, errlim) ==
    IF meth = 3 THEN sumsum(Dnew) - dsumold < errlim
    ELSE Abs(trace(Dnew) - ne) < errlim
Converged(Dm, Dnew, ne, meth, dsumold, errlim) ==
    IF meth = 3 THEN sumsum(Dnew) - dsumold < errlim
    ELSE Abs(trace(Dm) - ne) < errlim

\* for iter in range(MaxIter): there is another pass
MorePassesOffByOne == iter <= MaxIter
MorePasses == iter < MaxIter

\* ---- the call
Fs ==
    { << <<a, c>>, <<c, b>> >> :
        a \in {0, One, 2 * One}, b \in {0, One, 2 * One}, c \in {0, One} }

Ss == { Scaled(s, identity(2)) : s \in {One, 4 * One} }

MethodSelectors == 0..4

\* the least tolerance above zero, and a coarse one (1/8)
ErrorLimits == {1, One \div 8}

notDMP == <<gridVars, parVars, beckeVars, uhfVars, optVars, fminVars, newtonVars,
    cgVars, lsVars>>

\* The arguments.  F is not a multiple of the identity: then emax = emin and
\* (emax*I-F)/(emax-emin) divides an array by zero, whose outcome is Numeric's.
\* McWeeny purification is called at half filling only: for Ne = N its
\* bisection leaves [emin, emax] and the matrix elements grow without bound.
InitDMP ==
    /\ F \in Fs /\ ~(F[1][1] = F[2][2] /\ F[1][2] = 0)
    /\ S \in Ss
    /\ Ne \in {One, 2 * One}
    /\ Method \in MethodSelectors
    /\ Method = 2 => Ne = One
    /\ MaxIter \in 0..MaxIterBound
    /\ ErrorLimit \in ErrorLimits
    /\ X = << >> /\ D = << >> /\ Dsumold = 0 /\ iter = 0
    /\ dpc = "called" /\ derr = "" /\ warned = FALSE /\ broke = FALSE /\ nupd = 0
    /\ ret = << >>
    /\ IdleGrid /\ IdlePar /\ IdleBecke /\ IdleUHF /\ IdleOpt

\* Step 1: X = SymOrth(S); F = simx(F,X)
DMP_Orthogonalize ==
    /\ dpc = "called"
    /\ X' = SymOrth(S)
    /\ F' = simx(F, X', "N")
    /\ dpc' = "orthogonal"
    /\ UNCHANGED <<S, Ne, Method, MaxIter, ErrorLimit, D, Dsumold, iter, derr, warned, broke,
                   nupd, ret>>
    /\ UNCHANGED notDMP

\* Step 2 and Dsumold = sum(sum(D)); an unknown Method raises here
DMP_InitD ==
    /\ dpc = "orthogonal"
    /\ IF ~KnownMethod(Method)
       THEN /\ dpc' = "raised" /\ derr' = "Unknown method"
            /\ UNCHANGED <<D, Dsumold>>
       ELSE IF InitZeroDivision(F, Ne, Method)
       THEN /\ dpc' = "raised" /\ derr' = "ZeroDivisionError"
            /\ UNCHANGED <<D, Dsumold>>
       ELSE /\ D' = Dinit(F, Ne, Method)
            /\ Dsumold' = sumsum(D')
            /\ dpc' = "loop"
            /\ UNCHANGED derr
    /\ UNCHANGED <<F, S, Ne, Method, MaxIter, ErrorLimit, X, iter, warned, broke, nupd, ret>>
    /\ UNCHANGED notDMP

\* one pass of the loop that updates D, then breaks or goes on
DMP_Pass ==
    /\ dpc = "loop" /\ MorePasses
    /\ ~PassZeroDivision(D, Method)
    /\ D' = Update(D, Ne, Method)
    /\ nupd' = nupd + 1
    /\ iter' = iter + 1
    /\ IF Converged(D, D', Ne, Method, Dsumold, ErrorLimit)
       THEN /\ broke' = TRUE /\ dpc' = "exit"
            /\ UNCHANGED Dsumold
       ELSE /\ Dsumold' = IF Method = 3 THEN sumsum(D') ELSE Dsumold
            /\ UNCHANGED <<broke, dpc>>
    /\ UNCHANGED <<F, S, Ne, Method, MaxIter, ErrorLimit, X, derr, warned, ret>>
    /\ UNCHANGED notDMP

\* one pass of the loop whose division raises
DMP_PassRaise ==
    /\ dpc = "loop" /\ MorePasses
    /\ PassZeroDivision(D, Method)
    /\ iter' = iter + 1
    /\ dpc' = "raised" /\ derr' = "ZeroDivisionError"
    /\ UNCHANGED <<F, S, Ne, Method, MaxIter, ErrorLimit, X, D, Dsumold, warned, broke, nupd,
                   ret>>
    /\ UNCHANGED notDMP

\* the loop's else: print "DMM: Warning MaxIters reached"
DMP_MaxIters ==
    /\ dpc = "loop" /\ ~MorePasses
    /\ warned' = TRUE
    /\ dpc' = "exit"
    /\ UNCHANGED <<F, S, Ne, Method, MaxIter, ErrorLimit, X, D, Dsumold, iter, derr, broke,
                   nupd, ret>>
    /\ UNCHANGED notDMP

\* D = simx(D,X,'T'); return D
DMP_Return ==
    /\ dpc = "exit"
    /\ ret' = simx(D, X, "T")
    /\ dpc' = "returned"
    /\ UNCHANGED <<F, S, Ne, Method, MaxIter, ErrorLimit, X, D, Dsumold, iter, derr, warned,
                   broke, nupd>>
    /\ UNCHANGED notDMP

NextDMP ==
    \/ DMP_Orthogonalize
    \/ DMP_InitD
    \/ DMP_Pass
    \/ DMP_PassRaise
    \/ DMP_MaxIters
    \/ DMP_Return

SpecDMP == InitDMP /\ [][NextDMP]_vars

\* ------------------------------------------------------ DMP: the claims
\* C2: a Method outside 0..3 is rejected as a configuration check, before the
\* overlap matrix is orthogonalized and before any purification pass: with
\* such a Method the call never computes X, never updates D, returns nothing,
\* and ends by raising the error.
C2_SelectorCheckedBeforeOrthogonalization ==
    (dpc # "idle" /\ ~KnownMethod(Method)) =>
        /\ X = << >>
        /\ dpc \in {"called", "raised"}
        /\ nupd = 0 /\ ret = << >>
        /\ dpc = "raised" => derr = "Unknown method"

\* C3 as claimed: at most MaxIter updates; with a Method in 0..3 no error is
\* raised; the value returned is the back-transformed D, and the warning has
\* been printed exactly when the loop was not left by a convergence test.
C3_NoErrorWithinMaxIter ==
    /\ nupd <= MaxIter
    /\ KnownMethod(Method) => dpc # "raised"
    /\ dpc = "returned" => (ret = simx(D, X, "T") /\ (warned <=> ~broke))

\* C3 as amended: at most MaxIter passes and updates.  With a
\* Method in 0..3 it ends either by a ZeroDivisionError, of a scalar division
\* with a zero divisor (in a pass: Method 1's trg or Method 3's
\* trace(D - D2)), with nothing returned and no warning, or by returning the
\* back-transformed D; and then the warning has been printed exactly when no
\* convergence test passed, which takes MaxIter updates.
C3_AtMostMaxIterUpdates ==
    /\ nupd <= MaxIter /\ iter <= MaxIter
    /\ (KnownMethod(Method) /\ dpc = "raised") =>
          /\ derr = "ZeroDivisionError" /\ ret = << >> /\ ~warned
          /\ D # << >> => (Method \in {1, 3} /\ PassZeroDivision(D, Method))
    /\ dpc \in {"exit", "returned"} =>
          /\ warned <=> ~broke
          /\ warned => nupd = MaxIter
          /\ broke => nupd >= 1
    /\ dpc = "returned" => ret = simx(D, X, "T")

C3_Witness ==
    /\ dpc = "returned" /\ warned /\ MaxIter >= 2 /\ nupd = MaxIter /\ ret = simx(D, X, "T")
    /\ S[1][1] = 4 * One

\* C8: when DMP returns after its convergence test has passed, the trace of
\* D in the orthogonal basis is within ErrorLimit of Ne.
C8_ConvergedTraceIsNe ==
    (dpc = "returned" /\ broke) => Abs(trace(D) - Ne) < ErrorLimit

\* C13: with Method 3 the loop is left by its convergence test only in a pass
\* that moved the sum of all elements of D by less than ErrorLimit in
\* magnitude: a pass that moves the sum by ErrorLimit or more, up or down,
\* does not stop the loop.
C13_CanonicalStopsOnSmallSumChange ==
    (Method = 3 /\ broke /\ dpc \in {"exit", "returned"}) =>
        Abs(sumsum(D) - Dsumold) < ErrorLimit

\* C14: with Method 0 a pass replaces D by 2D - D^2 when trace(D) < Ne and by
\* D^2 otherwise; the loop is left in that pass exactly when the trace of D
\* before the replacement is within ErrorLimit of Ne, and so after the
\* replacement.
C14_TraceCorrectingPass ==
    [][(Method = 0 /\ dpc = "loop" /\ dpc' # "raised" /\ iter' = iter + 1) =>
          /\ D' = IF trace(D) < Ne
                  THEN MatSub(Scaled(2 * One, D), matrixmultiply(D, D))
                  ELSE matrixmultiply(D, D)
          /\ nupd' = nupd + 1
          /\ broke' <=> Abs(trace(D) - Ne) < ErrorLimit
          /\ broke' <=> dpc' = "exit"]_vars

C14_Witness ==
    /\ Method = 0 /\ dpc = "returned" /\ broke /\ nupd >= 1
    /\ trace(D) < Ne /\ Abs(trace(D) - Ne) >= ErrorLimit

\* =========================================================== UHFSolver
\* The matrices of the solver are 1 x 1: one basis function.  All of
\* update_density and update_fock is linear algebra applied element by element.

\* LA2.mkdens(orbs, nstart, nstop): the density of the orbitals nstart..nstop-1
mkdens(orbs, nstart, nstop) == (nstop - nstart) * Mul(orbs, orbs)

\* fermi_dirac.mkdens_fermi(nel, orbe, orbs, etemp): <<density, entropy>>
mkdens_fermi(nel, orbs, temp) == <<RoundDiv(nel * Mul(orbs, orbs), 2), -temp>>

\* Ints.getJ and Ints.getK: linear in the density
getJ(ints, Dm) == Mul(ints.j, Dm)
getK(ints, Dm) == Mul(ints.k, Dm)

\* LA2.trace2(A, B): trace(A B)
trace2(A, B) == Mul(A, B)

\* the orbitals geigh can return
OrbVals == {Half, One}

\* update_density up to the averaging: <<Da, Db, entropy>>
NewDensities ==
    IF etemp # 0
    THEN LET a == mkdens_fermi(2 * nalpha, orbsa, etemp)
             b == mkdens_fermi(2 * nbeta, orbsb, etemp)
         IN  <<a[1], b[1], RoundDiv(a[2] + b[2], 2)>>
    ELSE <<mkdens(orbsa, 0, nalpha), mkdens(orbsb, 0, nbeta), 0>>

\* self.avgfact*D + (1.0-self.avgfact)*D_old
Averaged(Dnew, Dold) == Mul(avgfact, Dnew) + Mul(One - avgfact, Dold)

\* what update_density stores in Da_old, of the density made from the
\* orbitals and the density it leaves in Da
StoredUnmixed(Dmade, Dleft) == <<Dmade>>
Stored(Dmade, Dleft) == <<Dleft>>

\* the Fock matrix of one spin
FockAveraged(hh, ja, jb, k, Fold) ==
    IF do_averaging THEN Mul(avgfact, hh + ja + jb - k) + Mul(One - avgfact, Fold)
    ELSE hh + ja + jb - k
Fock(hh, ja, jb, k, Fold) == hh + ja + jb - k

notUHF == <<gridVars, parVars, beckeVars, dmpVars, optVars, fminVars, newtonVars,
    cgVars, lsVars>>

\* the solver after setup, setup_guess (orbsa = orbsb) and setup_averaging,
\* as the first iteration starts
InitUHF ==
    /\ h = -One
    /\ Ints = [j |-> One, k |-> Half]
    /\ nalpha \in {1, 2} /\ nbeta = 1
    /\ etemp \in {0, 2}
    /\ do_averaging \in BOOLEAN
    /\ avgfact \in {Half, Half \div 2}
    /\ self_iter \in {0, 1}
    /\ orbsa \in OrbVals /\ orbsb = orbsa
    /\ Da = 0 /\ Db = 0 /\ Dab = 0 /\ Da_old = << >> /\ Db_old = << >> /\ entropy = 0
    /\ Ja = 0 /\ Jb = 0 /\ Ka = 0 /\ Kb = 0 /\ Fa = 0 /\ Fb = 0
    /\ Enuke = One /\ energy = 0
    /\ upc = "update_density"
    /\ used = << >>
    /\ IdleGrid /\ IdlePar /\ IdleBecke /\ IdleDMP /\ IdleOpt

UHF_update_density ==
    /\ upc = "update_density"
    /\ LET new == NewDensities
           mix == do_averaging /\ self_iter > 1
       IN  /\ entropy' = new[3]
           /\ IF mix /\ (Da_old = << >> \/ Db_old = << >>)
              THEN \* AttributeError: Da_old has never been assigned
                   /\ upc' = "raised"
                   /\ Da' = new[1] /\ Db' = new[2]
                   /\ UNCHANGED <<Da_old, Db_old, Dab>>
              ELSE /\ Da' = IF mix THEN Averaged(new[1], Da_old[1]) ELSE new[1]
                   /\ Db' = IF mix THEN Averaged(new[2], Db_old[1]) ELSE new[2]
                   /\ Da_old' = IF do_averaging THEN Stored(new[1], Da') ELSE Da_old
                   /\ Db_old' = IF do_averaging THEN Stored(new[2], Db') ELSE Db_old
                   /\ Dab' = Da' + Db'
                   /\ upc' = "update_fock"
    /\ UNCHANGED <<h, Ints, nalpha, nbeta, etemp, do_averaging, avgfact, self_iter, orbsa, orbsb,
                   Ja, Jb, Ka, Kb, Fa, Fb, Enuke, energy, used>>
    /\ UNCHANGED notUHF

\* update_fock, with update_J and update_K
UHF_update_fock ==
    /\ upc = "update_fock"
    /\ Ja' = getJ(Ints, Da) /\ Jb' = getJ(Ints, Db)
    /\ Ka' = getK(Ints, Da) /\ Kb' = getK(Ints, Db)
    /\ Fa' = Fock(h, Ja', Jb', Ka', Fa)
    /\ Fb' = Fock(h, Ja', Jb', Kb', Fb)
    /\ used' = <<Da, Db>>
    /\ upc' = "solve_fock"
    /\ UNCHANGED <<h, Ints, nalpha, nbeta, etemp, do_averaging, avgfact, self_iter, orbsa, orbsb,
                   Da, Db, Dab, Da_old, Db_old, entropy, Enuke, energy>>
    /\ UNCHANGED notUHF

\* solve_fock: geigh(Fa,S), geigh(Fb,S)
UHF_solve_fock ==
    /\ upc = "solve_fock"
    /\ orbsa' \in OrbVals /\ orbsb' \in OrbVals
    /\ upc' = "calculate_energy"
    /\ UNCHANGED <<h, Ints, nalpha, nbeta, etemp, do_averaging, avgfact, self_iter, Da, Db, Dab,
                   Da_old, Db_old, entropy, Ja, Jb, Ka, Kb, Fa, Fb, Enuke, energy, used>>
    /\ UNCHANGED notUHF

UHF_calculate_energy ==
    /\ upc = "calculate_energy"
    /\ LET Eone == trace2(Dab, h)
           Ej == Mul(Half, trace2(Dab, Ja + Jb))
           Exc == -Mul(Half, trace2(Da, Ka) + trace2(Db, Kb))
       IN  energy' = Eone + Ej + Exc + Enuke + entropy
    /\ upc' = "iterate"
    /\ UNCHANGED <<h, Ints, nalpha, nbeta, etemp, do_averaging, avgfact, self_iter, orbsa, orbsb,
                   Da, Db, Dab, Da_old, Db_old, entropy, Ja, Jb, Ka, Kb, Fa, Fb, Enuke, used>>
    /\ UNCHANGED notUHF

\* the solver's loop starts the next iteration
UHF_next_iteration ==
    /\ upc = "iterate"
    /\ self_iter < MaxScfIter
    /\ self_iter' = self_iter + 1
    /\ upc' = "update_density"
    /\ UNCHANGED <<h, Ints, nalpha, nbeta, etemp, do_averaging, avgfact, orbsa, orbsb, Da, Db,
                   Dab, Da_old, Db_old, entropy, Ja, Jb, Ka, Kb, Fa, Fb, Enuke, energy, used>>
    /\ UNCHANGED notUHF

NextUHF ==
    \/ UHF_update_density
    \/ UHF_update_fock
    \/ UHF_solve_fock
    \/ UHF_calculate_energy
    \/ UHF_next_iteration

SpecUHF == InitUHF /\ [][NextUHF]_vars

\* ---------------------------------------------------- UHFSolver: the claims
\* C9: after update_density, with do_averaging and self.iter > 1 each of Da
\* and Db is avgfact * (the density made from the orbitals) + (1 - avgfact) *
\* (the density the preceding iteration built its Fock matrices from); with
\* do_averaging and self.iter <= 1, and without do_averaging, it is the density
\* made from the orbitals, and without do_averaging no old density is kept.
\* Dab = Da + Db in every case.
C9_AveragedWithDensityLastUsed ==
    upc = "update_fock" =>
        LET new == NewDensities
        IN  /\ Dab = Da + Db
            /\ (do_averaging /\ self_iter > 1) =>
                  /\ used # << >>
                  /\ Da = Mul(avgfact, new[1]) + Mul(One - avgfact, used[1])
                  /\ Db = Mul(avgfact, new[2]) + Mul(One - avgfact, used[2])
            /\ (do_averaging /\ self_iter <= 1) => (Da = new[1] /\ Db = new[2])
            /\ ~do_averaging =>
                  (Da = new[1] /\ Db = new[2] /\ Da_old = << >> /\ Db_old = << >>)

C9_Witness ==
    /\ upc = "update_fock" /\ do_averaging /\ self_iter = 3
    /\ Da # NewDensities[1] /\ used # << >> /\ used[1] # Da

\* C10: after update_fock, Fa = h + Ja + Jb - Ka and Fb = h + Ja + Jb - Kb,
\* with Ja, Ka made from the current Da and Jb, Kb from the current Db,
\* whether or not do_averaging is set.
C10_FockFromCurrentDensities ==
    upc = "solve_fock" =>
        /\ Ja = getJ(Ints, Da) /\ Jb = getJ(Ints, Db)
        /\ Ka = getK(Ints, Da) /\ Kb = getK(Ints, Db)
        /\ Fa = h + Ja + Jb - Ka
        /\ Fb = h + Ja + Jb - Kb

C10_Witness ==
    /\ upc = "solve_fock" /\ do_averaging /\ self_iter >= 2
    /\ Da # Db /\ Fa # Fb /\ Fa = h + Ja + Jb - Ka

\* ============================================================ optimize
\* ---- the objectives, of a sequence of numbers
Funcs == {"sq", "abs", "flat", "neg"}

Eval(fn, x) ==
    IF fn = "sq" THEN SumSeq([k \in 1..Len(x) |-> Mul(x[k] - One, x[k] - One)])
    ELSE IF fn = "abs" THEN SumSeq([k \in 1..Len(x) |-> Abs(x[k])])
    ELSE IF fn = "flat" THEN 0
    ELSE -SumSeq(x)

\* ------------------------------------------------------------- fmin
DefaultBudget == 200
nonzdelt == RoundDiv(5 * One, 100)
\* 0.00025, and not less than the least number above zero
zdelt == Max(1, RoundDiv(25 * One, 100000))

MaxSeq(xs) == CHOOSE v \in {xs[k] : k \in 1..Len(xs)} : \A k \in 1..Len(xs) : xs[k] <= v
MinSeq(xs) == CHOOSE v \in {xs[k] : k \in 1..Len(xs)} : \A k \in 1..Len(xs) : v <= xs[k]

\* Num.argsort(fs): the orders that sort fs, equal values in any order
argsorts(fs) ==
    { ind \in [1..Len(fs) -> 1..Len(fs)] :
        /\ \A a, b \in 1..Len(fs) : a # b => ind[a] # ind[b]
        /\ \A a, b \in 1..Len(fs) : a < b => fs[ind[a]] <= fs[ind[b]] }

take(xs, ind) == [j \in 1..Len(xs) |-> xs[ind[j]]]

\* the simplex before the first sort: x0, and x0 with one coordinate moved
simplex0(x) ==
    [j \in 1..(Len(x) + 1) |->
        IF j = 1 THEN x
        ELSE [k \in 1..Len(x) |->
                IF k # j - 1 THEN x[k]
                ELSE IF x[k] # 0 THEN Mul(One + nonzdelt, x[k]) ELSE zdelt]]

\* the test that breaks the loop
SimplexConverged ==
    LET N == Len(x0)
    IN  /\ MaxSeq([n \in 1..(N * N) |->
                Abs(sim[((n - 1) \div N) + 2][((n - 1) % N) + 1] - sim[1][((n - 1) % N) + 1])])
              <= xtol
        /\ MaxSeq([j \in 1..N |-> Abs(fsim[1] - fsim[j + 1])]) <= ftol

\* the while condition
MoreIterationsLe == funcalls <= maxfun[1] /\ iterations < maxiter[1]
MoreIterations == funcalls < maxfun[1] /\ iterations < maxiter[1]

\* one pass of the loop up to the sort: the simplex, its values, and the
\* number of times func was applied
fmin_pass(sm, fs, fn) ==
    LET N == Len(sm) - 1
        last == sm[N + 1]
        xbar == [k \in 1..N |-> RoundDiv(SumSeq([j \in 1..N |-> sm[j][k]]), N)]
        xr == [k \in 1..N |-> 2 * xbar[k] - last[k]]
        fxr == Eval(fn, xr)
        xe == [k \in 1..N |-> 3 * xbar[k] - 2 * last[k]]
        fxe == Eval(fn, xe)
        xc == [k \in 1..N |-> Mul(One + Half, xbar[k]) - Mul(Half, last[k])]
        fxc == Eval(fn, xc)
        xcc == [k \in 1..N |-> Mul(Half, xbar[k]) + Mul(Half, last[k])]
        fxcc == Eval(fn, xcc)
        put(x, fx, n) == [sim |-> [sm EXCEPT ![N + 1] = x],
                          fsim |-> [fs EXCEPT ![N + 1] = fx], calls |-> n]
        shrunk == [j \in 1..(N + 1) |->
                     IF j = 1 THEN sm[1]
                     ELSE [k \in 1..N |-> sm[1][k] + Mul(Half, sm[j][k] - sm[1][k])]]
        shrink(n) == [sim |-> shrunk,
                      fsim |-> [j \in 1..(N + 1) |-> IF j = 1 THEN fs[1] ELSE Eval(fn, shrunk[j])],
                      calls |-> n + N]
    IN  IF fxr < fs[1]
        THEN IF fxe < fxr THEN put(xe, fxe, 2) ELSE put(xr, fxr, 2)
        ELSE IF fxr < fs[N]
        THEN put(xr, fxr, 1)
        ELSE IF fxr < fs[N + 1]
        THEN IF fxc <= fxr THEN put(xc, fxc, 2) ELSE shrink(2)
        ELSE IF fxcc < fs[N + 1] THEN put(xcc, fxcc, 2) ELSE shrink(2)

\* warnflag, of the two counters and the two budgets
WarnFlagIterationsFirst(fc, it, mf, mi) == IF it >= mi THEN 2 ELSE IF fc >= mf THEN 1 ELSE 0
WarnFlag(fc, it, mf, mi) == IF fc >= mf THEN 1 ELSE IF it >= mi THEN 2 ELSE 0

Budgets(n) == {<< >>} \cup {<<b>> : b \in 0..n}
Tolerances == {2, One \div 16}
Starts == {0, One, 2 * One}

notOpt == <<gridVars, parVars, beckeVars, dmpVars, uhfVars>>
notFmin == <<notOpt, newtonVars, cgVars, lsVars>>

\* a call of fmin; the objective without a minimum is not called without a budget
InitFmin ==
    /\ algo = "fmin"
    /\ func \in Funcs
    /\ \E N \in 1..2 : x0 \in [1..N -> Starts]
    /\ maxiter \in Budgets(MaxBudgetIter)
    /\ maxfun \in Budgets(MaxBudgetFun)
    /\ func = "neg" => (maxiter # << >> \/ maxfun # << >>)
    /\ xtol \in Tolerances /\ ftol = xtol
    /\ opc = "called" /\ oerr = "" /\ warnflag = -1 /\ retx = << >> /\ fval = << >>
    /\ sim = << >> /\ fsim = << >> /\ iterations = 0 /\ funcalls = 0 /\ nevals = 0
    /\ left = ""
    /\ IdleNewton

\* fmin up to the loop
Fmin_Setup ==
    /\ algo = "fmin" /\ opc = "called"
    /\ maxiter' = IF maxiter = << >> THEN <<Len(x0) * DefaultBudget>> ELSE maxiter
    /\ maxfun' = IF maxfun = << >> THEN <<Len(x0) * DefaultBudget>> ELSE maxfun
    /\ LET sm == simplex0(x0)
           fs == [j \in 1..Len(sm) |-> Eval(func, sm[j])]
       IN  \E ind \in argsorts(fs) : sim' = take(sm, ind) /\ fsim' = take(fs, ind)
    /\ iterations' = 1
    /\ funcalls' = Len(x0) + 1
    /\ nevals' = Len(x0) + 1
    /\ opc' = "loop"
    /\ UNCHANGED <<algo, func, x0, xtol, ftol, oerr, warnflag, retx, fval, left>>
    /\ UNCHANGED notFmin

\* one pass of the loop
Fmin_Iterate ==
    /\ algo = "fmin" /\ opc = "loop"
    /\ MoreIterations /\ ~SimplexConverged
    /\ LET new == fmin_pass(sim, fsim, func)
       IN  /\ \E ind \in argsorts(new.fsim) :
                 sim' = take(new.sim, ind) /\ fsim' = take(new.fsim, ind)
           /\ funcalls' = funcalls + new.calls
           /\ nevals' = nevals + new.calls
    /\ iterations' = iterations + 1
    /\ UNCHANGED <<optVars, left>>
    /\ UNCHANGED notFmin

\* break
Fmin_Break ==
    /\ algo = "fmin" /\ opc = "loop"
    /\ MoreIterations /\ SimplexConverged
    /\ left' = "break"
    /\ opc' = "exit"
    /\ UNCHANGED <<algo, func, x0, maxiter, maxfun, xtol, ftol, oerr, warnflag, retx, fval>>
    /\ UNCHANGED <<sim, fsim, iterations, funcalls, nevals>>
    /\ UNCHANGED notFmin

\* the while condition is false
Fmin_Exhausted ==
    /\ algo = "fmin" /\ opc = "loop"
    /\ ~MoreIterations
    /\ left' = "guard"
    /\ opc' = "exit"
    /\ UNCHANGED <<algo, func, x0, maxiter, maxfun, xtol, ftol, oerr, warnflag, retx, fval>>
    /\ UNCHANGED <<sim, fsim, iterations, funcalls, nevals>>
    /\ UNCHANGED notFmin

\* after the loop: return x, fval, warnflag (fulloutput)
Fmin_Return ==
    /\ algo = "fmin" /\ opc = "exit"
    /\ retx' = sim[1]
    /\ fval' = <<MinSeq(fsim)>>
    /\ warnflag' = WarnFlag(funcalls, iterations, maxfun[1], maxiter[1])
    /\ opc' = "returned"
    /\ UNCHANGED <<algo, func, x0, maxiter, maxfun, xtol, ftol, oerr>>
    /\ UNCHANGED fminVars
    /\ UNCHANGED notFmin

\* ------------------------------------- fminBFGS, fminNCG: the numbers
\* A float is a fixed point number or NaN. NaN goes through every operation
\* and every comparison with it is false, as for IEEE doubles.
NaN == -(2 ^ 30)
IsNaN(v) == v = NaN

\* a * b / One and a * One / b (b # 0) without leaving the integer range
MulWide(a, b) == (a \div One) * b + RoundDiv((a % One) * b, One)
DivWide(a, b) ==
    IF b > 0 THEN (a \div b) * One + RoundPos((a % b) * One, b)
    ELSE ((-a) \div (-b)) * One + RoundPos(((-a) % (-b)) * One, -b)

FAdd(a, b) == IF IsNaN(a) \/ IsNaN(b) THEN NaN ELSE a + b
FSub(a, b) == IF IsNaN(a) \/ IsNaN(b) THEN NaN ELSE a - b
FMul(a, b) == IF IsNaN(a) \/ IsNaN(b) THEN NaN ELSE MulWide(a, b)
FDiv(a, b) == IF IsNaN(a) \/ IsNaN(b) THEN NaN ELSE DivWide(a, b)
FNeg(a) == IF IsNaN(a) THEN NaN ELSE -a
FAbs(a) == IF IsNaN(a) THEN NaN ELSE Abs(a)
FLe(a, b) == ~IsNaN(a) /\ ~IsNaN(b) /\ a <= b
FLt(a, b) == ~IsNaN(a) /\ ~IsNaN(b) /\ a < b
FGt(a, b) == FLt(b, a)

\* the largest r with r * r <= n, for 0 <= n < 46340 * 46340
isqrt(n) ==
    CHOOSE r \in 0..Min(n, 46339) : r * r <= n /\ n < (r + 1) * (r + 1)

\* Num.sqrt(v) for v >= 0
FSqrt(v) == IF IsNaN(v) THEN NaN ELSE isqrt(v * One)

\* n = n + 1 for a counter of calls, which the model counts modulo MaxCalls + 1
Count(n) == (n + 1) % (MaxCalls + 1)

\* ----------------------------------- the objectives of fminBFGS, fminNCG
\* f, fprime and fhess of the caller, for one variable: (x-1)^2, |x|, -x^2,
\* and an objective whose value is NaN where its gradient is not
NewtonFuncs == {"sq", "abs", "concave", "nan"}

f1(fn, x) ==
    IF fn = "nan" \/ IsNaN(x) THEN NaN
    ELSE IF fn = "sq" THEN FMul(x - One, x - One)
    ELSE IF fn = "abs" THEN Abs(x)
    ELSE -FMul(x, x)

fprime1(fn, x) ==
    IF IsNaN(x) THEN NaN
    ELSE IF fn = "sq" THEN 2 * (x - One)
    ELSE IF fn = "abs" THEN (IF x > 0 THEN One ELSE IF x < 0 THEN -One ELSE 0)
    ELSE IF fn = "concave" THEN -2 * x
    ELSE One

fhess1(fn, x) ==
    IF fn = "sq" \/ fn = "nan" THEN 2 * One
    ELSE IF fn = "abs" THEN 0
    ELSE -2 * One

\* epsilon = 1e-8, not less than one unit of the model's numbers
epsilon == Max(1, RoundDiv(One, 100000000))

approx_fprime(fn, x) == FDiv(FSub(f1(fn, FAdd(x, epsilon)), f1(fn, x)), epsilon)

approx_fhess_p(fn, x, p) ==
    FDiv(FSub(fprime1(fn, FAdd(x, FMul(epsilon, p))), fprime1(fn, x)), epsilon)

\* ------------------------------------------------- line_search_BFGS
\* c1 = 1e-4, not less than one unit; 0.96
c1 == Max(1, RoundDiv(One, 10000))
c096 == RoundDiv(96 * One, 100)

\* phi <= phi0 + c1*alpha*derphi0
Armijo(phi, p0, alpha, der) == FLe(phi, FAdd(p0, FMul(FMul(c1, alpha), der)))

LS_Raise ==
    /\ opc' = "raised" /\ oerr' = "ZeroDivisionError"
    /\ UNCHANGED alpha_k

LS_Found(alpha) ==
    /\ opc' = "found" /\ alpha_k' = alpha
    /\ UNCHANGED oerr

\* line_search_BFGS up to its loop
LS_Enter ==
    /\ opc = "search"
    /\ \E p0 \in {f1(func, xk)}, pa0 \in {f1(func, FAdd(xk, FMul(One, pk)))},
          der \in {FMul(gfk, pk)} :
       \E den \in {FSub(FSub(pa0, p0), FMul(der, One))} :
           /\ alpha0' = One /\ phi0' = p0 /\ phi_a0' = pa0 /\ derphi0' = der
           /\ IF Armijo(pa0, p0, One, der) THEN
                  /\ LS_Found(One) /\ ls_fc' = 2
                  /\ UNCHANGED <<alpha1, phi_a1>>
              ELSE IF den = 0 THEN
                  /\ LS_Raise /\ ls_fc' = 2
                  /\ UNCHANGED <<alpha1, phi_a1>>
              ELSE
                  \E a1 \in {FDiv(FDiv(FMul(FNeg(der), FMul(One, One)), 2 * One), den)} :
                  \E pa1 \in {f1(func, FAdd(xk, FMul(a1, pk)))} :
                      /\ alpha1' = a1 /\ phi_a1' = pa1 /\ ls_fc' = 3
                      /\ IF Armijo(pa1, p0, a1, der) THEN LS_Found(a1)
                         ELSE opc' = "ls_loop" /\ UNCHANGED <<oerr, alpha_k>>
    /\ UNCHANGED <<algo, func, x0, maxiter, maxfun, xtol, ftol, warnflag, retx, fval>>
    /\ UNCHANGED <<fminVars, newtonVars, cgVars, notOpt>>

\* one pass of the loop of line_search_BFGS
LS_Loop ==
    /\ opc = "ls_loop"
    /\ \E sq0 \in {FMul(alpha0, alpha0)}, sq1 \in {FMul(alpha1, alpha1)},
          d1 \in {FSub(FSub(phi_a1, phi0), FMul(derphi0, alpha1))},
          d0 \in {FSub(FSub(phi_a0, phi0), FMul(derphi0, alpha0))} :
       \E factor \in {FMul(FMul(sq0, sq1), FSub(alpha1, alpha0))} :
       IF factor = 0 THEN
           /\ LS_Raise
           /\ UNCHANGED <<alpha0, alpha1, phi_a0, phi_a1, ls_fc>>
       ELSE
           \E a \in {FDiv(FSub(FMul(sq0, d1), FMul(sq1, d0)), factor)},
              b \in {FDiv(FAdd(FMul(FNeg(FMul(sq0, alpha0)), d1),
                               FMul(FMul(sq1, alpha1), d0)), factor)} :
           \E a3 \in {FMul(3 * One, a)},
              rad \in {FAbs(FSub(FMul(b, b), FMul(FMul(3 * One, a), derphi0)))} :
           IF a3 = 0 THEN
               /\ LS_Raise
               /\ UNCHANGED <<alpha0, alpha1, phi_a0, phi_a1, ls_fc>>
           ELSE
               \E alpha2 \in {FDiv(FAdd(FNeg(b), FSqrt(rad)), a3)} :
               \E phi_a2 \in {f1(func, FAdd(xk, FMul(alpha2, pk)))},
                  far \in {FGt(FSub(alpha1, alpha2), FDiv(alpha1, 2 * One))} :
               IF Armijo(phi_a2, phi0, alpha2, derphi0) THEN
                   /\ LS_Found(alpha2) /\ ls_fc' = Count(ls_fc)
                   /\ UNCHANGED <<alpha0, alpha1, phi_a0, phi_a1>>
               ELSE IF ~far /\ alpha1 = 0 THEN
                   /\ LS_Raise /\ ls_fc' = Count(ls_fc)
                   /\ UNCHANGED <<alpha0, alpha1, phi_a0, phi_a1>>
               ELSE
                   /\ alpha0' = alpha1
                   /\ alpha1' = IF far \/ FLt(FSub(One, FDiv(alpha2, alpha1)), c096)
                                THEN FDiv(alpha1, 2 * One) ELSE alpha2
                   /\ phi_a0' = phi_a1
                   /\ phi_a1' = phi_a2
                   /\ ls_fc' = Count(ls_fc)
                   /\ UNCHANGED <<opc, oerr, alpha_k>>
    /\ UNCHANGED <<algo, func, x0, maxiter, maxfun, xtol, ftol, warnflag, retx, fval>>
    /\ UNCHANGED <<phi0, derphi0>>
    /\ UNCHANGED <<fminVars, newtonVars, cgVars, notOpt>>

\* ------------------------------------------------------------ fminBFGS
\* a call of fminBFGS(f, x0, fprime, avegtol = xtol, maxiter)
InitBFGS ==
    /\ algo = "fminBFGS"
    /\ func \in NewtonFuncs
    /\ \E s \in Starts : x0 = <<s>>
    /\ maxiter \in Budgets(MaxBudgetIter)
    /\ maxfun = << >>
    /\ xtol \in Tolerances /\ ftol = 0
    /\ opc = "called" /\ oerr = "" /\ warnflag = -1 /\ retx = << >> /\ fval = << >>
    /\ sim = << >> /\ fsim = << >> /\ iterations = 0 /\ funcalls = 0 /\ nevals = 0
    /\ left = ""
    /\ fprime_given \in BOOLEAN /\ hess_mode = ""
    /\ xk = 0 /\ gfk = 0 /\ Hk = 0 /\ k_iter = 0
    /\ func_calls = 0 /\ grad_calls = 0 /\ hcalls = 0 /\ pk = 0 /\ update = 0
    /\ ncg_b = 0 /\ ncg_A = 0 /\ termcond = 0 /\ xsupi = 0 /\ ri = 0 /\ psupi = 0
    /\ cg_i = 0 /\ dri0 = 0
    /\ alpha0 = 0 /\ alpha1 = 0 /\ phi0 = 0 /\ phi_a0 = 0 /\ phi_a1 = 0 /\ derphi0 = 0
    /\ ls_fc = 0 /\ alpha_k = 0

\* gtol = N*avegtol
gtol == Len(x0) * xtol

\* the gradient at x: fprime, or approx_fprime when fprime is None
Gradient(x) == IF fprime_given THEN fprime1(func, x) ELSE approx_fprime(func, x)

\* fminBFGS up to its loop
BFGS_Setup ==
    /\ algo = "fminBFGS" /\ opc = "called"
    /\ maxiter' = IF maxiter = << >> THEN <<Len(x0) * DefaultBudget>> ELSE maxiter
    /\ k_iter' = 0
    /\ Hk' = One
    /\ gfk' = Gradient(x0[1])
    /\ func_calls' = IF fprime_given THEN 0 ELSE Len(x0) + 1
    /\ grad_calls' = IF fprime_given THEN 1 ELSE 0
    /\ xk' = x0[1]
    /\ opc' = "loop"
    /\ UNCHANGED <<algo, func, x0, maxfun, xtol, ftol, oerr, warnflag, retx, fval>>
    /\ UNCHANGED <<fprime_given, hess_mode, hcalls, pk, update>>
    /\ UNCHANGED <<fminVars, cgVars, lsVars, notOpt>>

\* (Num.add.reduce(abs(gfk)) > gtol) and (k < maxiter)
BFGS_More == FGt(FAbs(gfk), gtol) /\ k_iter < maxiter[1]

\* the loop of fminBFGS up to its call of line_search_BFGS
BFGS_Direction ==
    /\ algo = "fminBFGS" /\ opc = "loop"
    /\ BFGS_More
    /\ pk' = FNeg(FMul(Hk, gfk))
    /\ opc' = "search"
    /\ UNCHANGED <<algo, func, x0, maxiter, maxfun, xtol, ftol, oerr, warnflag, retx, fval>>
    /\ UNCHANGED <<fprime_given, hess_mode, xk, gfk, Hk, k_iter, func_calls, grad_calls,
                   hcalls, update>>
    /\ UNCHANGED <<fminVars, cgVars, lsVars, notOpt>>

\* the loop of fminBFGS after its call of line_search_BFGS
BFGS_Update ==
    /\ algo = "fminBFGS" /\ opc = "found"
    /\ \E xkp1 \in {FAdd(xk, FMul(alpha_k, pk))} :
       \E sk \in {FSub(xkp1, xk)}, gfkp1 \in {Gradient(xkp1)} :
       \E yk \in {FSub(gfkp1, gfk)} :
       \E yksk \in {FMul(yk, sk)} :
           /\ xk' = xkp1
           /\ func_calls' = func_calls + ls_fc + (IF fprime_given THEN 0 ELSE Len(x0) + 1)
           /\ grad_calls' = grad_calls + (IF fprime_given THEN 1 ELSE 0)
           /\ k_iter' = k_iter + 1
           /\ IF yksk = 0 THEN
                  /\ opc' = "raised" /\ oerr' = "ZeroDivisionError"
                  /\ UNCHANGED <<Hk, gfk>>
              ELSE
                  \E rhok \in {FDiv(One, yksk)} :
                  \E A1 \in {FSub(One, FMul(FMul(sk, yk), rhok))},
                     A2 \in {FSub(One, FMul(FMul(yk, sk), rhok))} :
                      /\ Hk' = FAdd(FMul(A1, FMul(Hk, A2)), FMul(FMul(rhok, sk), sk))
                      /\ gfk' = gfkp1
                      /\ opc' = "loop"
                      /\ UNCHANGED oerr
    /\ UNCHANGED <<algo, func, x0, maxiter, maxfun, xtol, ftol, warnflag, retx, fval>>
    /\ UNCHANGED <<fprime_given, hess_mode, hcalls, pk, update>>
    /\ UNCHANGED <<fminVars, cgVars, lsVars, notOpt>>

\* fminBFGS after its loop
BFGS_Return ==
    /\ algo = "fminBFGS" /\ opc = "loop"
    /\ ~BFGS_More
    /\ fval' = <<f1(func, xk)>>
    /\ warnflag' = IF k_iter >= maxiter[1] THEN 1 ELSE 0
    /\ retx' = <<xk>>
    /\ opc' = "returned"
    /\ UNCHANGED <<algo, func, x0, maxiter, maxfun, xtol, ftol, oerr>>
    /\ UNCHANGED <<fminVars, newtonVars, cgVars, lsVars, notOpt>>

\* ------------------------------------------------------------- fminNCG
\* k < maxiter and k >= maxiter as Python 2 orders an int and maxiter: None is
\* less than every number
PyLtNoneLargest(kk, m) == m = << >> \/ kk < m[1]
PyLt(kk, m) == m # << >> /\ kk < m[1]
PyGe(kk, m) == m = << >> \/ kk >= m[1]

\* a call of fminNCG(f, x0, fprime, fhess_p, fhess, avextol = xtol, maxiter)
InitNCG ==
    /\ algo = "fminNCG"
    /\ func \in NewtonFuncs
    /\ \E s \in Starts : x0 = <<s>>
    /\ maxiter \in Budgets(MaxBudgetIter)
    /\ maxfun = << >>
    /\ xtol \in Tolerances /\ ftol = 0
    /\ opc = "called" /\ oerr = "" /\ warnflag = -1 /\ retx = << >> /\ fval = << >>
    /\ sim = << >> /\ fsim = << >> /\ iterations = 0 /\ funcalls = 0 /\ nevals = 0
    /\ left = ""
    /\ fprime_given = TRUE /\ hess_mode \in {"fhess_p", "fhess", "approx"}
    /\ xk = 0 /\ gfk = 0 /\ Hk = 0 /\ k_iter = 0
    /\ func_calls = 0 /\ grad_calls = 0 /\ hcalls = 0 /\ pk = 0 /\ update = 0
    /\ ncg_b = 0 /\ ncg_A = 0 /\ termcond = 0 /\ xsupi = 0 /\ ri = 0 /\ psupi = 0
    /\ cg_i = 0 /\ dri0 = 0
    /\ alpha0 = 0 /\ alpha1 = 0 /\ phi0 = 0 /\ phi_a0 = 0 /\ phi_a1 = 0 /\ derphi0 = 0
    /\ ls_fc = 0 /\ alpha_k = 0

\* fminNCG up to its loop
NCG_Setup ==
    /\ algo = "fminNCG" /\ opc = "called"
    /\ func_calls' = 0 /\ grad_calls' = 0 /\ hcalls' = 0
    /\ xtol' = Len(x0) * xtol
    /\ update' = 2 * xtol'
    /\ xk' = x0[1]
    /\ k_iter' = 0
    /\ opc' = "loop"
    /\ UNCHANGED <<algo, func, x0, maxiter, maxfun, ftol, oerr, warnflag, retx, fval>>
    /\ UNCHANGED <<fprime_given, hess_mode, gfk, Hk, pk>>
    /\ UNCHANGED <<fminVars, cgVars, lsVars, notOpt>>

\* (Num.add.reduce(abs(update)) > xtol) and (k < maxiter)
NCG_More == FGt(FAbs(update), xtol) /\ PyLt(k_iter, maxiter)

\* the loop of fminNCG up to its conjugate gradient loop
NCG_Outer ==
    /\ algo = "fminNCG" /\ opc = "loop"
    /\ NCG_More
    /\ \E bb \in {FNeg(fprime1(func, xk))} :
       \E maggrad \in {FAbs(bb)} :
       \E eta \in {Min(Half, FSqrt(maggrad))} :
           /\ ncg_b' = bb
           /\ termcond' = FMul(eta, maggrad)
           /\ ri' = FNeg(bb)
           /\ psupi' = bb
           /\ dri0' = FMul(bb, bb)
    /\ grad_calls' = grad_calls + 1
    /\ xsupi' = 0
    /\ cg_i' = 0
    /\ IF hess_mode = "fhess" THEN ncg_A' = fhess1(func, xk) /\ hcalls' = hcalls + 1
       ELSE UNCHANGED <<ncg_A, hcalls>>
    /\ opc' = "cg"
    /\ UNCHANGED <<algo, func, x0, maxiter, maxfun, xtol, ftol, oerr, warnflag, retx, fval>>
    /\ UNCHANGED <<fprime_given, hess_mode, xk, gfk, Hk, k_iter, func_calls, pk, update>>
    /\ UNCHANGED <<fminVars, lsVars, notOpt>>

\* one pass of the conjugate gradient loop; a break goes on to the lines
\* that follow the loop
NCG_CG ==
    /\ algo = "fminNCG" /\ opc = "cg"
    /\ FGt(FAbs(ri), termcond)
    /\ \E Ap \in {IF hess_mode = "approx" THEN approx_fhess_p(func, xk, psupi)
                   ELSE IF hess_mode = "fhess_p" THEN FMul(fhess1(func, xk), psupi)
                   ELSE FMul(ncg_A, psupi)} :
       \E curv \in {FMul(psupi, Ap)} :
           /\ grad_calls' = IF hess_mode = "approx" THEN Count(Count(grad_calls))
                            ELSE grad_calls
           /\ hcalls' = IF hess_mode = "fhess_p" THEN Count(hcalls) ELSE hcalls
           /\ IF FLe(curv, 0) /\ cg_i > 0 THEN
                  /\ pk' = xsupi /\ gfk' = FNeg(ncg_b) /\ opc' = "search"
                  /\ UNCHANGED <<xsupi, ri, psupi, cg_i, dri0, oerr>>
              ELSE IF curv = 0 \/ (~FLe(curv, 0) /\ dri0 = 0) THEN
                  /\ opc' = "raised" /\ oerr' = "ZeroDivisionError"
                  /\ UNCHANGED <<xsupi, ri, psupi, cg_i, dri0, pk, gfk>>
              ELSE
                  \E alphai \in {FDiv(dri0, curv)} :
                  \E ri1 \in {FAdd(ri, FMul(alphai, Ap))} :
                  \E dri1 \in {FMul(ri1, ri1)} :
                  IF FLe(curv, 0) THEN
                      /\ xsupi' = FAdd(xsupi, FMul(alphai, psupi))
                      /\ pk' = xsupi' /\ gfk' = FNeg(ncg_b) /\ opc' = "search"
                      /\ UNCHANGED <<ri, psupi, cg_i, dri0, oerr>>
                  ELSE
                      /\ xsupi' = FAdd(xsupi, FMul(alphai, psupi))
                      /\ ri' = ri1
                      /\ psupi' = FAdd(FNeg(ri1), FMul(FDiv(dri1, dri0), psupi))
                      /\ cg_i' = Count(cg_i)
                      /\ dri0' = dri1
                      /\ UNCHANGED <<opc, oerr, pk, gfk>>
    /\ UNCHANGED <<algo, func, x0, maxiter, maxfun, xtol, ftol, warnflag, retx, fval>>
    /\ UNCHANGED <<fprime_given, hess_mode, xk, Hk, k_iter, func_calls, update>>
    /\ UNCHANGED <<ncg_b, ncg_A, termcond>>
    /\ UNCHANGED <<fminVars, lsVars, notOpt>>

\* the conjugate gradient loop is left by its guard
NCG_CGDone ==
    /\ algo = "fminNCG" /\ opc = "cg"
    /\ ~FGt(FAbs(ri), termcond)
    /\ pk' = xsupi
    /\ gfk' = FNeg(ncg_b)
    /\ opc' = "search"
    /\ UNCHANGED <<algo, func, x0, maxiter, maxfun, xtol, ftol, oerr, warnflag, retx, fval>>
    /\ UNCHANGED <<fprime_given, hess_mode, xk, Hk, k_iter, func_calls, grad_calls, hcalls,
                   update>>
    /\ UNCHANGED <<fminVars, cgVars, lsVars, notOpt>>

\* the loop of fminNCG after its call of line_search_BFGS
NCG_Update ==
    /\ algo = "fminNCG" /\ opc = "found"
    /\ func_calls' = func_calls + ls_fc
    /\ update' = FMul(alpha_k, pk)
    /\ xk' = FAdd(xk, update')
    /\ k_iter' = k_iter + 1
    /\ opc' = "loop"
    /\ UNCHANGED <<algo, func, x0, maxiter, maxfun, xtol, ftol, oerr, warnflag, retx, fval>>
    /\ UNCHANGED <<fprime_given, hess_mode, gfk, Hk, grad_calls, hcalls, pk>>
    /\ UNCHANGED <<fminVars, cgVars, lsVars, notOpt>>

\* fminNCG after its loop
NCG_Return ==
    /\ algo = "fminNCG" /\ opc = "loop"
    /\ ~NCG_More
    /\ fval' = <<f1(func, xk)>>
    /\ warnflag' = IF PyGe(k_iter, maxiter) THEN 1 ELSE 0
    /\ retx' = <<xk>>
    /\ opc' = "returned"
    /\ UNCHANGED <<algo, func, x0, maxiter, maxfun, xtol, ftol, oerr>>
    /\ UNCHANGED <<fminVars, newtonVars, cgVars, lsVars, notOpt>>

NextOpt ==
    \/ Fmin_Setup
    \/ Fmin_Iterate
    \/ Fmin_Break
    \/ Fmin_Exhausted
    \/ Fmin_Return

InitOpt ==
    /\ InitFmin
    /\ IdleGrid /\ IdlePar /\ IdleBecke /\ IdleDMP /\ IdleUHF

SpecOpt == InitOpt /\ [][NextOpt]_vars

NextNewton ==
    \/ BFGS_Setup
    \/ BFGS_Direction
    \/ BFGS_Update
    \/ BFGS_Return
    \/ NCG_Setup
    \/ NCG_Outer
    \/ NCG_CG
    \/ NCG_CGDone
    \/ NCG_Update
    \/ NCG_Return
    \/ LS_Enter
    \/ LS_Loop

InitNewton ==
    /\ InitBFGS \/ InitNCG
    /\ IdleGrid /\ IdlePar /\ IdleBecke /\ IdleDMP /\ IdleUHF

SpecNewton == InitNewton /\ [][NextNewton]_vars

\* a call that has not returned or raised goes on running
SpecNewtonFair == SpecNewton /\ WF_vars(NextNewton)

\* ---------------------------------------------------- fmin: the claims
\* C11: fmin raises nothing; it returns a vertex of its simplex with the least
\* value, that value, and a warnflag that is 1 when funcalls has reached
\* maxfun, else 2 when iterations has reached maxiter, else 0; and the
\* warnflag is 0 exactly when the loop was left by the break of the
\* convergence test.
C11_WarnflagReportsSpentBudget ==
    algo = "fmin" =>
        /\ opc # "raised" /\ oerr = ""
        /\ opc = "returned" =>
              /\ warnflag = IF funcalls >= maxfun[1] THEN 1
                            ELSE IF iterations >= maxiter[1] THEN 2 ELSE 0
              /\ warnflag = 0 <=> left = "break"
              /\ \E j \in 1..Len(sim) : retx = sim[j]
              /\ fval = <<Eval(func, retx)>>
              /\ \A j \in 1..Len(sim) : fval[1] <= fsim[j] /\ fsim[j] = Eval(func, sim[j])

\* the pass that spent the budget left a simplex that meets the convergence
\* test, and the warnflag is not 0
C11_Witness ==
    /\ algo = "fmin" /\ opc = "returned" /\ left = "guard" /\ iterations >= 2
    /\ SimplexConverged /\ warnflag = 2 /\ funcalls < maxfun[1]

\* C18: funcalls counts the applications of func; it is N+1 when the loop
\* starts; a pass starts only with funcalls < maxfun and iterations < maxiter
\* and adds between 1 and N+2; so funcalls is N+1 if no pass ran and at most
\* maxfun + N + 1 otherwise.
C18_FuncallsBound ==
    /\ [](algo = "fmin" /\ opc \in {"loop", "exit", "returned"} =>
            /\ funcalls = nevals
            /\ iterations >= 1
            /\ iterations = 1 => funcalls = Len(x0) + 1
            /\ iterations > 1 =>
                  (Len(x0) + 1 < funcalls /\ funcalls <= maxfun[1] + Len(x0) + 1))
    /\ [][(algo = "fmin" /\ opc = "loop" /\ iterations' # iterations) =>
            /\ iterations' = iterations + 1
            /\ funcalls < maxfun[1] /\ iterations < maxiter[1]
            /\ funcalls' - funcalls \in 1..(Len(x0) + 2)]_vars

C18_Witness ==
    /\ algo = "fmin" /\ opc = "returned" /\ iterations > 1 /\ Len(x0) = 2
    /\ funcalls = maxfun[1] + Len(x0) + 1

\* --------------------------------- fminBFGS, fminNCG: the claims
\* C17: fminNCG installs no default for maxiter: called with maxiter None its
\* loop guard is false on entry, the loop body never runs (no gradient is
\* evaluated, k stays 0) and it returns x0 itself, f(x0) and warnflag 1;
\* fminBFGS replaces a maxiter of None by 200*len(x0) before its loop.
C17_NCGWithoutMaxiterReturnsStart ==
    /\ []((algo = "fminNCG" /\ maxiter = << >>) =>
            /\ opc \in {"called", "loop", "returned"}
            /\ k_iter = 0 /\ grad_calls = 0 /\ func_calls = 0 /\ hcalls = 0
            /\ opc = "loop" => xk = x0[1]
            /\ opc = "returned" =>
                  (retx = x0 /\ warnflag = 1 /\ fval = <<f1(func, x0[1])>>))
    /\ [](algo = "fminBFGS" /\ opc # "called" => maxiter # << >>)
    /\ [][(algo = "fminBFGS" /\ opc = "called" /\ maxiter = << >>) =>
            maxiter' = <<DefaultBudget * Len(x0)>>]_vars
    /\ [][(algo = "fminNCG" /\ opc = "called") => maxiter' = maxiter]_vars

\* fminNCG without maxiter has returned a start that is not a stationary point
C17_Witness ==
    /\ algo = "fminNCG" /\ maxiter = << >> /\ opc = "returned"
    /\ retx = x0 /\ warnflag = 1 /\ fprime1(func, x0[1]) # 0

\* C12: every call of fminBFGS and fminNCG ends, by a return or by raising,
\* when every call of the objective and of its gradient returns.
C12_OptimizerCallEnds == <>(opc \in {"returned", "raised"})

====
